---- MODULE Spec2Model ----
(***************************************************************************)
(* HELIOS ETF FLOW: rolling baseline normalisation, composite scoring,     *)
(* state classification and the daily backfill pipeline.                   *)
(*                                                                         *)
(* Numbers.  The program computes in floating point; the model computes in *)
(* fixed point.  Raw feature values are integers, a z-score is an integer  *)
(* number of hundredths (ZScale), a weight is an integer number of         *)
(* hundredths (WScale) and a composite score is an integer number of       *)
(* ten-thousandths (CasScale = ZScale * WScale).  A missing value (Python  *)
(* None) is the empty sequence and a present value v is <<v>>.             *)
(***************************************************************************)
EXTENDS Integers, Sequences, FiniteSets, TLC

VARIABLES
    z_in,        \* scoring: the z_scores map handed to calculate_cas
    cas_in,      \* scoring: the score handed to classify_state
    cas_out,     \* scoring: calculate_cas's result (None before the call)
    state_out,   \* scoring: classify_state's result (None before the call)
    status_in,   \* scoring: the status normalize_sector gave calculate_sector
    sector_state_out, \* scoring: calculate_sector's state (None before the call)
    calculator,  \* the SectorRollingCalculator's _stats
    zq,          \* the last get_zscore call: its arguments and result
    zn,          \* the last zscore_normalize call: its arguments and result
    prices,      \* pipeline input: ticker -> price table, as fetched
    target_date, \* pipeline input: run's trade_date, the target date
    pc,          \* where DailyPipeline.run stands
    run_no,      \* number of runs started
    day_idx,     \* _process_all_days: index of the day in trading_dates
    ticker_idx,  \* calculate_all: index of the next ticker of the day
    sector_results, \* calculate_all: the day's SectorResults so far
    last_norm,   \* calculate_sector: what normalize_sector last returned
    result,      \* _process_all_days: the last day's HeliosResult
    all_rows,    \* _process_all_days: the accumulated history rows
    returned,    \* what _process_all_days returned
    history_file,   \* helios_history.parquet
    daily_files,    \* the dates of the daily snapshot files written
    table_at_start, \* helios_history.parquet as the current run found it
    tables,      \* helios_history.parquet at the end of each completed run
    _tokens,     \* limiter: the bucket's tokens
    elapsed,     \* limiter: time.monotonic() - _last_update, in ticks
    _lock,       \* limiter: the asyncio.Lock, its holder and its queue
    tasks,       \* limiter: each caller's call and where it stands
    files,       \* cache: path -> content, of the files that exist
    writers,     \* cache: each save_json call and where it stands
    loaded       \* cache: what the last load_json read from the target

scoreVars == << z_in, cas_in, cas_out, state_out, status_in, sector_state_out >>
windowVars == << calculator, zq, zn >>
inputVars == << prices, target_date >>
loopVars == << day_idx, ticker_idx, sector_results, last_norm, result, all_rows, returned >>
fileVars == << history_file, daily_files, table_at_start, tables >>
limiterVars == << _tokens, elapsed, _lock, tasks >>
cacheVars == << files, writers, loaded >>
ingestVars == << limiterVars, cacheVars >>
pipeVars == << ingestVars, inputVars, pc, run_no, loopVars, fileVars >>
vars == << scoreVars, windowVars, pipeVars >>

ZScale == 10 ^ 2
WScale == 10 ^ 2
CasScale == ZScale * WScale

None == << >>
Some(v) == << v >>
IsNone(o) == o = None
Val(o) == o[1]

Abs(x) == IF x < 0 THEN -x ELSE x
\* Division rounding toward zero, the fixed-point image of float division.
Quot(a, b) == IF (a < 0) = (b < 0) THEN Abs(a) \div Abs(b) ELSE -(Abs(a) \div Abs(b))

(***************************************************************************)
(* core/constants.py                                                       *)
(***************************************************************************)
FEATURE_NAMES == << "AP", "RS" >>
FeatureSet == { FEATURE_NAMES[i] : i \in 1 .. Len(FEATURE_NAMES) }
\* The model's universe: two of the eleven sector tickers, in universe order.
SECTOR_UNIVERSE == << "XLK", "XLF" >>
Tickers == { SECTOR_UNIVERSE[i] : i \in 1 .. Len(SECTOR_UNIVERSE) }
BENCHMARK_TICKER == "SPY"
\* Window capacity and readiness threshold (63 and 21 in the program; the
\* constructors take them as parameters and the model runs them small).
ROLLING_WINDOW == 3
MIN_OBSERVATIONS == 2
\* core/types.py: BaselineStatus
BaselineStatus == { "COMPLETE", "PARTIAL", "INSUFFICIENT" }
WeightNames == << "AP", "RS" >>
WEIGHTS == [AP |-> 60, RS |-> 40]

(***************************************************************************)
(* core/types.py: AllocationState.from_cas, and scoring/classifier.py.     *)
(***************************************************************************)
from_cas_closed_upper(cas) ==
    IF cas >= 1 * CasScale THEN "OVERWEIGHT"
    ELSE IF cas > (3 * CasScale) \div 10 THEN "ACCUMULATING"
    ELSE IF cas >= -((3 * CasScale) \div 10) THEN "NEUTRAL"
    ELSE IF cas >= -(1 * CasScale) THEN "DECREASING"
    ELSE "UNDERWEIGHT"

from_cas(cas) ==
    IF cas > 1 * CasScale THEN "OVERWEIGHT"
    ELSE IF cas > (3 * CasScale) \div 10 THEN "ACCUMULATING"
    ELSE IF cas >= -((3 * CasScale) \div 10) THEN "NEUTRAL"
    ELSE IF cas >= -(1 * CasScale) THEN "DECREASING"
    ELSE "UNDERWEIGHT"

classify_state(cas) == from_cas(cas)

(***************************************************************************)
(* scoring/composite.py: calculate_cas.  z_scores is a function whose     *)
(* domain is the set of features that scored.                              *)
(***************************************************************************)
RECURSIVE cas_loop(_, _, _)
cas_loop(z_scores, i, weighted_sum) ==
    IF i > Len(WeightNames) THEN weighted_sum
    ELSE LET name == WeightNames[i]
         IN  IF name \notin DOMAIN z_scores
             THEN cas_loop(z_scores, i + 1, weighted_sum)
             ELSE cas_loop(z_scores, i + 1, weighted_sum + WEIGHTS[name] * z_scores[name])

RECURSIVE present_weight(_, _)
present_weight(z_scores, i) ==
    IF i > Len(WeightNames) THEN 0
    ELSE (IF WeightNames[i] \in DOMAIN z_scores THEN WEIGHTS[WeightNames[i]] ELSE 0)
         + present_weight(z_scores, i + 1)

\* A variant that rescales by the weight of the features present.
calculate_cas_renormalised(z_scores) ==
    IF present_weight(z_scores, 1) = 0 THEN 0
    ELSE Quot(cas_loop(z_scores, 1, 0) * WScale, present_weight(z_scores, 1))

calculate_cas(z_scores) == cas_loop(z_scores, 1, 0)

(***************************************************************************)
(* normalization/rolling.py: RollingStats.  A window is a record of the   *)
(* two deques _values and _dates (both maxlen = window) and, for the       *)
(* properties, the log `added` of every <<value, date>> ever passed to     *)
(* add, oldest first.                                                      *)
(***************************************************************************)
Min(a, b) == IF a < b THEN a ELSE b

\* deque(maxlen = n).append without the eviction of the oldest element.
DequeAppendNoEvict(q, x, maxlen) == Append(q, x)

\* deque(maxlen = n).append
DequeAppend(q, x, maxlen) ==
    IF Len(q) >= maxlen THEN Tail(q) \o << x >> ELSE Append(q, x)

NewRollingStats == [_values |-> << >>, _dates |-> << >>, added |-> << >>]

Add(stats, value, trade_date) ==
    [_values |-> DequeAppend(stats._values, value, ROLLING_WINDOW),
     _dates  |-> DequeAppend(stats._dates, trade_date, ROLLING_WINDOW),
     added   |-> Append(stats.added, << value, trade_date >>)]

\* zip(values, dates, strict=True): the pairs of the common prefix are added
\* before a length mismatch raises.
RECURSIVE AddBulk(_, _, _)
AddBulk(stats, values, dates) ==
    IF values = << >> \/ dates = << >> THEN stats
    ELSE AddBulk(Add(stats, Head(values), Head(dates)), Tail(values), Tail(dates))

Count(stats) == Len(stats._values)

\* is_ready with a strict comparison.
IsReadyStrict(stats) == Count(stats) > MIN_OBSERVATIONS

IsReady(stats) == Count(stats) >= MIN_OBSERVATIONS

RECURSIVE SeqSum(_)
SeqSum(s) == IF s = << >> THEN 0 ELSE Head(s) + SeqSum(Tail(s))

\* Floor of the square root, by bisection on lo .. hi.
RECURSIVE ISqrtIn(_, _, _)
ISqrtIn(n, lo, hi) ==
    IF lo >= hi THEN lo
    ELSE LET mid == (lo + hi + 1) \div 2
         IN  IF mid * mid <= n THEN ISqrtIn(n, mid, hi) ELSE ISqrtIn(n, lo, mid - 1)

ISqrt(n) == ISqrtIn(n, 0, Min(n, 46340))

\* Sum over the window of (n * x - sum)^2, i.e. n^2 times the sum of squared
\* deviations from the mean.
SumSqDevN(vals) ==
    LET n == Len(vals)
        s == SeqSum(vals)
    IN  SeqSum([i \in 1 .. n |-> (n * vals[i] - s) * (n * vals[i] - s)])

\* mean: None if not ready, else np.mean, in 1/ZScale of a raw unit.
Mean(stats) ==
    IF ~IsReady(stats) THEN None
    ELSE Some(Quot(SeqSum(stats._values) * ZScale, Count(stats)))

\* std: None if not ready, else np.std(ddof=1), in 1/ZScale of a raw unit.
Std(stats) ==
    IF ~IsReady(stats) THEN None
    ELSE LET n == Count(stats)
         IN  Some(ISqrt(Quot(SumSqDevN(stats._values) * ZScale * ZScale,
                             n * n * (n - 1))))

(***************************************************************************)
(* normalization/rolling.py: SectorRollingCalculator.  _stats is a        *)
(* function ticker -> feature -> window.                                   *)
(***************************************************************************)
NewCalculator == [t \in Tickers |-> [f \in FeatureSet |-> NewRollingStats]]

\* add_observation that adds the values to the windows of every ticker.
AddObservationEveryTicker(calc, ticker, trade_date, features) ==
    IF ticker \notin DOMAIN calc THEN calc
    ELSE [t \in DOMAIN calc |->
            [name \in DOMAIN calc[t] |->
                IF name \in DOMAIN features /\ features[name] # None
                THEN Add(calc[t][name], Val(features[name]), trade_date)
                ELSE calc[t][name]]]

\* features: a function from some names to optional values.
AddObservation(calc, ticker, trade_date, features) ==
    IF ticker \notin DOMAIN calc THEN calc
    ELSE [calc EXCEPT ![ticker] =
            [name \in DOMAIN calc[ticker] |->
                IF name \in DOMAIN features /\ features[name] # None
                THEN Add(calc[ticker][name], Val(features[name]), trade_date)
                ELSE calc[ticker][name]]]

\* get_stats: None for a pair that is not tracked.
GetStats(calc, ticker, feature_name) ==
    IF ticker \in DOMAIN calc /\ feature_name \in DOMAIN calc[ticker]
    THEN Some(calc[ticker][feature_name]) ELSE None

\* get_zscore that answers 0.0 instead of None when it has no statistics.
GetZscoreZeroFill(calc, ticker, feature_name, value) ==
    LET stats == GetStats(calc, ticker, feature_name)
    IN  IF stats = None THEN None
        ELSE IF ~IsReady(Val(stats)) \/ Std(Val(stats)) = Some(0) THEN Some(0)
        ELSE Some(Quot((value * ZScale - Val(Mean(Val(stats)))) * ZScale,
                       Val(Std(Val(stats)))))

\* get_zscore: None for an untracked pair, a window that is not ready or a
\* zero standard deviation; else (value - mean) / std, never clipped.
GetZscore(calc, ticker, feature_name, value) ==
    LET stats == GetStats(calc, ticker, feature_name)
    IN  IF stats = None \/ ~IsReady(Val(stats)) THEN None
        ELSE LET mean == Mean(Val(stats))
                 std == Std(Val(stats))
             IN  IF mean = None \/ std = None \/ std = Some(0) THEN None
                 ELSE Some(Quot((value * ZScale - Val(mean)) * ZScale, Val(std)))

(***************************************************************************)
(* normalization/methods.py                                                *)
(***************************************************************************)
\* zscore_normalize(value, mean, std): 0.0 for a zero or missing std, else
\* (value - mean) / std, never clipped.  mean and std are in 1/ZScale.
zscore_normalize(value, mean, std) ==
    IF std = Some(0) \/ std = None THEN 0
    ELSE Quot((value * ZScale - mean) * ZScale, Val(std))

\* load_from_history: history is a function ticker -> sequence of records
\* [date |-> optional date, feats |-> function name -> optional value].
RECURSIVE LoadRecords(_, _, _)
LoadRecords(calc, ticker, records) ==
    IF records = << >> THEN calc
    ELSE LET record == Head(records)
         IN  IF record.date = None
             THEN LoadRecords(calc, ticker, Tail(records))
             ELSE LoadRecords(
                    AddObservation(calc, ticker, Val(record.date),
                        [k \in { x \in DOMAIN record.feats : record.feats[x] # None }
                            |-> record.feats[k]]),
                    ticker, Tail(records))

RECURSIVE LoadTickers(_, _, _)
LoadTickers(calc, history, todo) ==
    IF todo = {} THEN calc
    ELSE LET ticker == CHOOSE t \in todo : TRUE
         IN  LoadTickers(
                IF ticker \notin DOMAIN calc THEN calc
                ELSE LoadRecords(calc, ticker, history[ticker]),
                history, todo \ { ticker })

LoadFromHistory(calc, history) == LoadTickers(calc, history, DOMAIN history)

(***************************************************************************)
(* Dates are integers; today is the day after the last date of any table.  *)
(* A price table is a sequence of rows [date, open, close, volume]; prices *)
(* is a function from the tickers that were fetched to their tables.       *)
(***************************************************************************)
\* The last date a price table may hold.
MaxDay == 4
Dates == 1 .. MaxDay
Today == MaxDay + 1

\* date.isoformat() and its parse (pd.to_datetime(...).dt.date).
IsoFormat(d) == << "iso", d >>
FromIso(str) == str[2]

\* df[df["date"] == day]: the rows of that date, in table order.
RowsOn(df, day) == SelectSeq(df, LAMBDA r : r.date = day)

\* sorted(list of dates): insertion sort.
RECURSIVE InsertSorted(_, _)
InsertSorted(sorted, d) ==
    IF sorted = << >> THEN << d >>
    ELSE IF d < Head(sorted) THEN << d >> \o sorted
    ELSE << Head(sorted) >> \o InsertSorted(Tail(sorted), d)

RECURSIVE Sorted(_)
Sorted(q) == IF q = << >> THEN << >> ELSE InsertSorted(Sorted(Tail(q)), Head(q))

\* close / prior close - 1, in halves (exact for the closes of the model).
DailyReturn(close, prior_close) == Quot(2 * close, prior_close) - 2

(***************************************************************************)
(* features/aggregator.py, allocation_pressure.py, relative_strength.py    *)
(***************************************************************************)
\* RelativeStrength.calculate: the excess return, None if an operand is.
ExcessReturn(etf_return, spy_return) ==
    IF etf_return = None \/ spy_return = None THEN None
    ELSE Some(Val(etf_return) - Val(spy_return))

\* FeatureAggregator.calculate_sector: the SectorFeatureSet.
AggregatorCalculateSector(ticker, day, net_flow, etf_return, spy_return) ==
    [ticker |-> ticker, trade_date |-> day, net_flow |-> net_flow,
     etf_return |-> etf_return, spy_return |-> spy_return,
     excess_return |-> ExcessReturn(etf_return, spy_return)]

\* x or 0.0
OrZero(o) == IF o = None THEN 0 ELSE Val(o)

\* dict.get
Get(dict, key) == IF key \in DOMAIN dict THEN Some(dict[key]) ELSE None

\* FeatureAggregator.calculate_all: one SectorFeatureSet per universe ticker.
AggregatorCalculateAll(day, flows, returns, spy_return) ==
    [ticker \in Tickers |->
        AggregatorCalculateSector(ticker, day, Get(flows, ticker), Get(returns, ticker),
                                  spy_return)]

(***************************************************************************)
(* normalization/pipeline.py: NormalizationPipeline                        *)
(***************************************************************************)
\* normalize_sector's loop over {"AP": net_flow, "RS": excess_return}.
RECURSIVE NormalizeLoop(_, _, _, _, _, _)
NormalizeLoop(calc, ticker, feature_values, n, z_scores, excluded) ==
    IF n > Len(FEATURE_NAMES) THEN [z_scores |-> z_scores, excluded |-> excluded]
    ELSE LET feature_name == FEATURE_NAMES[n]
             raw_value == feature_values[feature_name]
         IN  IF raw_value = None
             THEN NormalizeLoop(calc, ticker, feature_values, n + 1, z_scores,
                                Append(excluded, feature_name))
             ELSE LET z == GetZscore(calc, ticker, feature_name, Val(raw_value))
                  IN  IF z = None
                      THEN NormalizeLoop(calc, ticker, feature_values, n + 1, z_scores,
                                         Append(excluded, feature_name))
                      ELSE NormalizeLoop(calc, ticker, feature_values, n + 1,
                                         (feature_name :> Val(z)) @@ z_scores, excluded)

\* normalize_sector with a missing raw value taken as 0.
NormalizeSectorZeroFill(calc, ticker, features) ==
    LET out == NormalizeLoop(calc, ticker,
                   [AP |-> Some(OrZero(features.net_flow)),
                    RS |-> Some(OrZero(features.excess_return))],
                   1, << >>, << >>)
        scored == Cardinality(DOMAIN out.z_scores)
    IN  [z_scores |-> out.z_scores, excluded |-> out.excluded,
         status |-> IF scored = Len(FEATURE_NAMES) THEN "COMPLETE"
                    ELSE IF scored > 0 THEN "PARTIAL"
                    ELSE "INSUFFICIENT"]

\* normalize_sector with status COMPLETE as soon as one feature scored.
NormalizeSectorAnyScored(calc, ticker, features) ==
    LET out == NormalizeLoop(calc, ticker,
                   [AP |-> features.net_flow, RS |-> features.excess_return],
                   1, << >>, << >>)
    IN  [z_scores |-> out.z_scores, excluded |-> out.excluded,
         status |-> IF DOMAIN out.z_scores # {} THEN "COMPLETE" ELSE "INSUFFICIENT"]

\* normalize_sector: (z_scores, excluded, status).
NormalizeSector(calc, ticker, features) ==
    LET out == NormalizeLoop(calc, ticker,
                   [AP |-> features.net_flow, RS |-> features.excess_return],
                   1, << >>, << >>)
        scored == Cardinality(DOMAIN out.z_scores)
    IN  [z_scores |-> out.z_scores, excluded |-> out.excluded,
         status |-> IF scored = Len(FEATURE_NAMES) THEN "COMPLETE"
                    ELSE IF scored > 0 THEN "PARTIAL"
                    ELSE "INSUFFICIENT"]

\* add_observation: the non-missing raw values go to the calculator.
PipelineAddObservation(calc, ticker, features) ==
    LET feature_values ==
            [n \in { x \in { "AP" } : features.net_flow # None }
                   \cup { x \in { "RS" } : features.excess_return # None } |->
                IF n = "AP" THEN features.net_flow ELSE features.excess_return]
    IN  IF DOMAIN feature_values # {}
        THEN AddObservation(calc, ticker, features.trade_date, feature_values)
        ELSE calc

\* load_history: the persisted rows dated before up_to_date, per universe
\* ticker in file order, through load_from_history.  No file, or a file that
\* cannot be read (the exception is caught), loads nothing.
HistoryRecords(rows, ticker, up_to_date) ==
    LET ticker_df == SelectSeq(rows,
            LAMBDA row : FromIso(row.date) < up_to_date /\ row.ticker = ticker)
    IN  [n \in 1 .. Len(ticker_df) |->
            [date |-> Some(FromIso(ticker_df[n].date)),
             feats |-> [AP |-> Some(ticker_df[n].ap_raw),
                        RS |-> Some(ticker_df[n].rs_raw)]]]

LoadHistory(calc, file, up_to_date) ==
    IF file.state # "complete" THEN calc
    ELSE LoadFromHistory(calc,
            [t \in { x \in Tickers : HistoryRecords(file.rows, x, up_to_date) # << >> } |->
                HistoryRecords(file.rows, t, up_to_date)])

(***************************************************************************)
(* scoring/engine.py: HeliosEngine                                         *)
(***************************************************************************)
\* Step 3 without the INSUFFICIENT default.
SectorStateUnforced(status, cas) == classify_state(cas)

\* Step 3 of calculate_sector: NEUTRAL for an INSUFFICIENT baseline,
\* classify_state(cas) otherwise.
SectorState(status, cas) ==
    IF status = "INSUFFICIENT" THEN "NEUTRAL" ELSE classify_state(cas)

\* The SectorResult with the state taken from the AP z-score alone.
SectorResultOfApOnly(features, norm) ==
    LET cas == calculate_cas(norm.z_scores)
    IN  [ticker |-> features.ticker,
         allocation_score |-> cas,
         state |-> SectorState(norm.status,
                               WEIGHTS["AP"] * OrZero(Get(norm.z_scores, "AP"))),
         ap_zscore |-> OrZero(Get(norm.z_scores, "AP")),
         rs_zscore |-> OrZero(Get(norm.z_scores, "RS")),
         ap_raw |-> OrZero(features.net_flow),
         rs_raw |-> OrZero(features.excess_return),
         status |-> norm.status]

\* Steps 2 to 4 of calculate_sector: the SectorResult of the feature set
\* and of what normalize_sector returned for it.
SectorResultOf(features, norm) ==
    LET cas == calculate_cas(norm.z_scores)
    IN  [ticker |-> features.ticker,
         allocation_score |-> cas,
         state |-> SectorState(norm.status, cas),
         ap_zscore |-> OrZero(Get(norm.z_scores, "AP")),
         rs_zscore |-> OrZero(Get(norm.z_scores, "RS")),
         ap_raw |-> OrZero(features.net_flow),
         rs_raw |-> OrZero(features.excess_return),
         status |-> norm.status]

\* calculate_sector with the window update before the normalisation.
EngineCalculateSectorAddFirst(calc, features) ==
    LET updated == PipelineAddObservation(calc, features.ticker, features)
        norm == NormalizeSector(updated, features.ticker, features)
    IN  [result |-> SectorResultOf(features, norm), norm |-> norm, calc |-> updated]

\* calculate_sector: normalise, score, classify, then update the windows.
\* (The explanation text, produced by the ExplanationGenerator from the
\* other fields, is left out of the result.)
EngineCalculateSector(calc, features) ==
    LET norm == NormalizeSector(calc, features.ticker, features)
    IN  [result |-> SectorResultOf(features, norm), norm |-> norm,
         calc |-> PipelineAddObservation(calc, features.ticker, features)]

\* The overall status with any() in place of the first all().
OverallStatusAnyComplete(sectors) ==
    IF \E n \in 1 .. Len(sectors) : sectors[n].status = "COMPLETE" THEN "COMPLETE"
    ELSE IF \A n \in 1 .. Len(sectors) : sectors[n].status = "INSUFFICIENT"
         THEN "INSUFFICIENT"
    ELSE "PARTIAL"

\* calculate_all's overall status from the sector statuses.
OverallStatus(sectors) ==
    IF \A n \in 1 .. Len(sectors) : sectors[n].status = "COMPLETE" THEN "COMPLETE"
    ELSE IF \A n \in 1 .. Len(sectors) : sectors[n].status = "INSUFFICIENT"
         THEN "INSUFFICIENT"
    ELSE "PARTIAL"

\* calculate_all's HeliosResult dated today whatever the feature sets.
HeliosResultOfToday(sectors, first_date) ==
    [trade_date |-> Today, sectors |-> sectors, status |-> OverallStatus(sectors)]

\* calculate_all's HeliosResult; first_date is the trade_date of the first
\* feature set, None when there was none.
HeliosResultOf(sectors, first_date) ==
    [trade_date |-> IF first_date = None THEN Today ELSE Val(first_date),
     sectors |-> sectors,
     status |-> OverallStatus(sectors)]

\* calculate_all(all_features = {})
EmptyResult == HeliosResultOf(<< >>, None)

\* overweight_sectors that also takes the ACCUMULATING sectors.
overweight_or_accumulating_sectors(res) ==
    SelectSeq(res.sectors, LAMBDA s : s.state \in { "OVERWEIGHT", "ACCUMULATING" })

\* core/types.py: HeliosResult.overweight_sectors, underweight_sectors
overweight_sectors(res) == SelectSeq(res.sectors, LAMBDA s : s.state = "OVERWEIGHT")
underweight_sectors(res) == SelectSeq(res.sectors, LAMBDA s : s.state = "UNDERWEIGHT")

(***************************************************************************)
(* pipeline/daily.py: DailyPipeline                                        *)
(***************************************************************************)
HasBenchmark(p) == BENCHMARK_TICKER \in DOMAIN p /\ Len(p[BENCHMARK_TICKER]) >= 2

\* trading_dates in table order, without the sort.
TradingDatesUnsorted(p) ==
    [n \in 1 .. Len(p[BENCHMARK_TICKER]) |-> p[BENCHMARK_TICKER][n].date]

\* trading_dates = sorted(spy_df["date"].tolist())
TradingDates(p) ==
    Sorted([n \in 1 .. Len(p[BENCHMARK_TICKER]) |-> p[BENCHMARK_TICKER][n].date])

\* The SPY return of day against prior_day.
SpyReturn(p, day, prior_day) ==
    DailyReturn(RowsOn(p[BENCHMARK_TICKER], day)[1].close,
                RowsOn(p[BENCHMARK_TICKER], prior_day)[1].close)

\* sector_flows with 0 for a fetched ticker without a row that day.
SectorFlowsZeroFill(p, day) ==
    [t \in { x \in Tickers : x \in DOMAIN p } |->
        IF RowsOn(p[t], day) = << >> THEN 0
        ELSE LET r == RowsOn(p[t], day)[1] IN r.volume * (r.close - r.open)]

\* sector_flows: DollarFlow = volume * (close - open) where a row exists.
SectorFlows(p, day) ==
    [t \in { x \in Tickers : x \in DOMAIN p /\ RowsOn(p[x], day) # << >> } |->
        LET r == RowsOn(p[t], day)[1] IN r.volume * (r.close - r.open)]

\* sector_returns: where today's and the prior day's rows both exist.
SectorReturns(p, day, prior_day) ==
    [t \in { x \in Tickers : /\ x \in DOMAIN p
                             /\ RowsOn(p[x], day) # << >>
                             /\ RowsOn(p[x], prior_day) # << >> } |->
        DailyReturn(RowsOn(p[t], day)[1].close, RowsOn(p[t], prior_day)[1].close)]

\* The day's feature sets (day is trading_dates[n], n >= 2).
DayFeatures(p, n) ==
    LET day == TradingDates(p)[n]
        prior_day == TradingDates(p)[n - 1]
    IN  AggregatorCalculateAll(day, SectorFlows(p, day), SectorReturns(p, day, prior_day),
                               Some(SpyReturn(p, day, prior_day)))

\* The history rows of one day's result.
HistoryRows(res) ==
    [n \in 1 .. Len(res.sectors) |->
        [date |-> IsoFormat(res.trade_date),
         ticker |-> res.sectors[n].ticker,
         allocation_score |-> res.sectors[n].allocation_score,
         state |-> res.sectors[n].state,
         ap_zscore |-> res.sectors[n].ap_zscore,
         rs_zscore |-> res.sectors[n].rs_zscore,
         ap_raw |-> res.sectors[n].ap_raw,
         rs_raw |-> res.sectors[n].rs_raw,
         status |-> res.sectors[n].status]]

\* drop_duplicates(subset=["date", "ticker"], keep="first")
DropDuplicatesKeepFirst(rows) ==
    LET keep == { n \in 1 .. Len(rows) :
                    ~\E earlier \in 1 .. (n - 1) :
                        /\ rows[earlier].date = rows[n].date
                        /\ rows[earlier].ticker = rows[n].ticker }
        RECURSIVE Pick(_)
        Pick(n) == IF n > Len(rows) THEN << >>
                   ELSE (IF n \in keep THEN << rows[n] >> ELSE << >>) \o Pick(n + 1)
    IN  Pick(1)

\* drop_duplicates(subset=["date", "ticker"], keep="last")
DropDuplicatesKeepLast(rows) ==
    LET keep == { n \in 1 .. Len(rows) :
                    ~\E later \in (n + 1) .. Len(rows) :
                        /\ rows[later].date = rows[n].date
                        /\ rows[later].ticker = rows[n].ticker }
        RECURSIVE Pick(_)
        Pick(n) == IF n > Len(rows) THEN << >>
                   ELSE (IF n \in keep THEN << rows[n] >> ELSE << >>) \o Pick(n + 1)
    IN  Pick(1)

NoFile == [state |-> "absent", rows |-> << >>]

\* The pipeline before it is constructed.
PipeIdle ==
    /\ prices = << >> /\ target_date = 0 /\ pc = "off" /\ run_no = 0
    /\ day_idx = 0 /\ ticker_idx = 0 /\ sector_results = << >> /\ last_norm = None
    /\ result = None /\ all_rows = << >> /\ returned = None
    /\ history_file = NoFile /\ daily_files = {} /\ table_at_start = NoFile
    /\ tables = << >>

\* The ingest layer before any client is constructed.
IngestIdle ==
    /\ _tokens = 0 /\ elapsed = 0 /\ _lock = << >> /\ tasks = << >>
    /\ files = << >> /\ writers = << >> /\ loaded = None

(***************************************************************************)
(* The scoring functions applied to bounded inputs.                        *)
(***************************************************************************)
\* z-scores in 1/ZScale: -5, -2, -1.5, -1, -0.5, 0, 0.5, 1, 1.2, 1.5, 2, 5.
ZInputs == { -500, -200, -150, -100, -50, 0, 50, 100, 120, 150, 200, 500 }
ZMaps == UNION { [D -> ZInputs] : D \in SUBSET FeatureSet }
\* scores in 1/CasScale around every threshold and at the extremes.
CasInputs == { -1000000, -10001, -10000, -9999, -5000, -3001, -3000, -2999, 0,
               2999, 3000, 3001, 5000, 9999, 10000, 10001, 13800, 1000000 }

ScoreIdle ==
    /\ z_in = << >> /\ cas_in = 0 /\ cas_out = None /\ state_out = None
    /\ status_in = "COMPLETE" /\ sector_state_out = None

InitScore ==
    /\ z_in \in ZMaps
    /\ cas_in \in CasInputs
    /\ cas_out = None
    /\ state_out = None
    /\ status_in \in BaselineStatus
    /\ sector_state_out = None
    /\ calculator = NewCalculator
    /\ zq = None /\ zn = None
    /\ PipeIdle
    /\ IngestIdle

CallCalculateCas ==
    /\ cas_out = None
    /\ cas_out' = Some(calculate_cas(z_in))
    /\ UNCHANGED << z_in, cas_in, state_out, status_in, sector_state_out, windowVars,
                    pipeVars >>

CallClassifyState ==
    /\ state_out = None
    /\ state_out' = Some(classify_state(cas_in))
    /\ UNCHANGED << z_in, cas_in, cas_out, status_in, sector_state_out, windowVars,
                    pipeVars >>

\* calculate_sector's step 3 on the status and the score of a sector.
CallSectorState ==
    /\ sector_state_out = None
    /\ sector_state_out' = Some(SectorState(status_in, cas_in))
    /\ UNCHANGED << z_in, cas_in, cas_out, state_out, status_in, windowVars, pipeVars >>

\* The status normalize_sector gives with these z-scores.
StatusOf(z_scores) ==
    IF DOMAIN z_scores = FeatureSet THEN "COMPLETE"
    ELSE IF DOMAIN z_scores # {} THEN "PARTIAL"
    ELSE "INSUFFICIENT"

\* calculate_sector's steps 2 to 4 on the z-scores normalize_sector
\* returned for a feature set whose scored features have a raw value.
CallSectorResult ==
    /\ sector_results = << >>
    /\ status_in = StatusOf(z_in)
    /\ LET features == AggregatorCalculateSector(SECTOR_UNIVERSE[1], 1,
                            IF "AP" \in DOMAIN z_in THEN Some(1) ELSE None,
                            IF "RS" \in DOMAIN z_in THEN Some(1) ELSE None, Some(0))
           norm == [z_scores |-> z_in, excluded |-> << >>, status |-> status_in]
       IN  sector_results' = << SectorResultOf(features, norm) >>
    /\ UNCHANGED << scoreVars, windowVars, ingestVars, inputVars, pc, run_no, day_idx, ticker_idx,
                    last_norm, result, all_rows, returned, fileVars >>

NextScore == CallCalculateCas \/ CallClassifyState \/ CallSectorState \/ CallSectorResult

SpecScore == InitScore /\ [][NextScore]_vars

(***************************************************************************)
(* The rolling calculator driven directly: any sequence of add, add_bulk,  *)
(* add_observation, load_from_history and get_zscore calls.                *)
(***************************************************************************)
\* At most MaxAdds values are added in all.
MaxAdds == 4
\* At most MaxBulk values are handed to one add_bulk or load_from_history.
MaxBulk == MaxAdds \div 2

\* The observations <<value, date>> handed to the calculator.
WObs == { << 1, 1 >>, << 2, 2 >> }
WDates == { o[2] : o \in WObs }
WValueOn(d) == (CHOOSE o \in WObs : o[2] = d)[1]
UnknownTicker == "ZZZ"
UnknownFeature == "XX"

RECURSIVE SeqsUpTo(_, _)
SeqsUpTo(S, n) ==
    IF n = 0 THEN { << >> }
    ELSE SeqsUpTo(S, n - 1) \cup
         { Append(q, x) : q \in { r \in SeqsUpTo(S, n - 1) : Len(r) = n - 1 }, x \in S }

TotalAdded(c) ==
    SeqSum([i \in 1 .. Len(SECTOR_UNIVERSE) |->
        SeqSum([j \in 1 .. Len(FEATURE_NAMES) |->
            Len(c[SECTOR_UNIVERSE[i]][FEATURE_NAMES[j]].added)])])

\* The feature maps handed to add_observation on date d: known and unknown
\* names, present and None values.
WFeatureMaps(d) ==
    { [n \in D |-> IF n = UnknownFeature THEN Some(1) ELSE m[n]] :
        D \in SUBSET (FeatureSet \cup { UnknownFeature }),
        m \in [FeatureSet -> { None, Some(WValueOn(d)) }] }

\* The records handed to load_from_history.
WRecords ==
    { [date |-> None, feats |-> [AP |-> Some(1)]],
      [date |-> Some(1), feats |-> [AP |-> Some(1), RS |-> None]],
      [date |-> Some(2), feats |-> [RS |-> Some(2), XX |-> Some(1)]] }

InitWindow ==
    /\ calculator = NewCalculator
    /\ zq = None /\ zn = None
    /\ ScoreIdle
    /\ PipeIdle
    /\ IngestIdle

\* RollingStats.add on one window.
WAdd ==
    \E t \in Tickers, f \in FeatureSet, o \in WObs :
        /\ calculator' = [calculator EXCEPT ![t][f] = Add(@, o[1], o[2])]
        /\ TotalAdded(calculator') <= MaxAdds
        /\ zq' = None /\ zn' = None
        /\ UNCHANGED << scoreVars, pipeVars >>

\* RollingStats.add_bulk on one window; with spare, values is one longer
\* than dates.
WAddBulk ==
    \E t \in Tickers, f \in FeatureSet, obs \in SeqsUpTo(WObs, MaxBulk),
       spare \in { << >>, << 1 >> } :
        /\ calculator' = [calculator EXCEPT ![t][f] =
               AddBulk(@, [i \in 1 .. Len(obs) |-> obs[i][1]] \o spare,
                          [i \in 1 .. Len(obs) |-> obs[i][2]])]
        /\ TotalAdded(calculator') <= MaxAdds
        /\ zq' = None /\ zn' = None
        /\ UNCHANGED << scoreVars, pipeVars >>

\* SectorRollingCalculator.add_observation
WAddObservation ==
    \E t \in Tickers \cup { UnknownTicker }, d \in WDates :
      \E features \in WFeatureMaps(d) :
        /\ calculator' = AddObservation(calculator, t, d, features)
        /\ TotalAdded(calculator') <= MaxAdds
        /\ zq' = None /\ zn' = None
        /\ UNCHANGED << scoreVars, pipeVars >>

\* SectorRollingCalculator.load_from_history
WLoadFromHistory ==
    \E t \in Tickers \cup { UnknownTicker }, records \in SeqsUpTo(WRecords, MaxBulk) :
        /\ calculator' = LoadFromHistory(calculator, [k \in { t } |-> records])
        /\ TotalAdded(calculator') <= MaxAdds
        /\ zq' = None /\ zn' = None
        /\ UNCHANGED << scoreVars, pipeVars >>

\* SectorRollingCalculator.get_zscore
WGetZscore ==
    \E t \in Tickers \cup { UnknownTicker }, f \in FeatureSet \cup { UnknownFeature } :
        /\ zq' = Some([ticker |-> t, feature_name |-> f, value |-> 3,
                       z |-> GetZscore(calculator, t, f, 3)])
        /\ zn' = None
        /\ UNCHANGED << calculator, scoreVars, pipeVars >>

\* methods.zscore_normalize on the value last handed to get_zscore and the
\* mean and std of the window it was asked about, once that window is ready.
WZscoreNormalize ==
    /\ zq # None
    /\ Val(zq).ticker \in Tickers /\ Val(zq).feature_name \in FeatureSet
    /\ LET stats == calculator[Val(zq).ticker][Val(zq).feature_name]
       IN  /\ IsReady(stats)
           /\ zn' = Some([value |-> Val(zq).value, mean |-> Val(Mean(stats)),
                          std |-> Std(stats),
                          z |-> zscore_normalize(Val(zq).value, Val(Mean(stats)),
                                                 Std(stats))])
    /\ UNCHANGED << calculator, zq, scoreVars, pipeVars >>

NextWindow ==
    \/ WAdd \/ WAddBulk \/ WAddObservation \/ WLoadFromHistory \/ WGetZscore
    \/ WZscoreNormalize

SpecWindow == InitWindow /\ [][NextWindow]_vars

(***************************************************************************)
(* HeliosEngine.calculate_sector called once, on windows warmed by         *)
(* load_from_history, for feature sets with present and missing values.    *)
(***************************************************************************)
\* The records of the loaded history: a date with AP, RS or both.
SRecords ==
    UNION { { [date |-> Some(d), feats |-> fm] :
                fm \in { x \in [FeatureSet -> { None, Some(WValueOn(d)) }] :
                            \E f \in FeatureSet : x[f] # None } } :
            d \in WDates }
\* The raw values of the day: missing, a value of the history, a new value.
SValues == { None, Some(1), Some(3) }
SDay == Cardinality(WDates) + 1

InitSector ==
    /\ \E h \in SeqsUpTo(SRecords, MaxBulk + 1) :
          calculator = LoadFromHistory(NewCalculator, [k \in { "XLK" } |-> h])
    /\ \E t \in Tickers, net_flow \in SValues, etf_return \in SValues :
          last_norm = Some([ticker |-> t, status |-> "INSUFFICIENT",
                            z_scores |-> << >>, excluded |-> << >>,
                            features |-> AggregatorCalculateSector(t, SDay, net_flow,
                                                                   etf_return, Some(0))])
    /\ zq = None /\ zn = None
    /\ ScoreIdle
    /\ IngestIdle
    /\ prices = << >> /\ target_date = 0 /\ pc = "off" /\ run_no = 0
    /\ day_idx = 0 /\ ticker_idx = 0 /\ sector_results = << >>
    /\ result = None /\ all_rows = << >> /\ returned = None
    /\ history_file = NoFile /\ daily_files = {} /\ table_at_start = NoFile
    /\ tables = << >>

\* calculate_sector(features)
SCalculateSector ==
    /\ pc = "off"
    /\ sector_results = << >>
    /\ LET features == Val(last_norm).features
           out == EngineCalculateSector(calculator, features)
       IN  /\ calculator' = out.calc
           /\ sector_results' = << out.result >>
           /\ last_norm' = Some([ticker |-> features.ticker, features |-> features,
                                 z_scores |-> out.norm.z_scores,
                                 excluded |-> out.norm.excluded,
                                 status |-> out.norm.status])
    /\ UNCHANGED << ingestVars, inputVars, pc, run_no, day_idx, ticker_idx, result, all_rows,
                    returned, fileVars, zq, zn, scoreVars >>

NextSector == SCalculateSector

SpecSector == InitSector /\ [][NextSector]_vars

(***************************************************************************)
(* DailyPipeline.run, repeated on one output directory over the same       *)
(* fetched prices and target date.  Each run is a new process: a new       *)
(* DailyPipeline with empty windows.                                       *)
(***************************************************************************)
\* The number of runs.
MaxRuns == 2

Row(d, close) == [date |-> d, open |-> 1, close |-> close, volume |-> 1]
TableOf(closes) ==
    SelectSeq([d \in Dates |-> Row(d, closes[d])], LAMBDA r : r.close # 0)
Reverse(q) == [n \in 1 .. Len(q) |-> q[Len(q) + 1 - n]]

\* XLK: on every date no row, or a row closing at 1 or at 2.
XlkTables == { TableOf(c) : c \in [Dates -> 0 .. 2] }
\* XLF: not fetched, or a row on every date, closing 2, 1, 2, 1, ...
XlfTables == { << >>, TableOf([d \in Dates |-> 1 + (d % 2)]) }
\* SPY: not fetched; one row; every date, flat, in date order or reversed;
\* every date closing 1, 2, 1, 2, ...; every date but the last; two dates
\* with two bars on the second.
SpyTables ==
    { << >>,
      << Row(1, 1), Row(2, 1), Row(2, 2) >>,
      TableOf([d \in Dates |-> IF d = 1 THEN 1 ELSE 0]),
      TableOf([d \in Dates |-> 1]),
      Reverse(TableOf([d \in Dates |-> 1])),
      TableOf([d \in Dates |-> 2 - (d % 2)]),
      TableOf([d \in Dates |-> IF d = MaxDay THEN 0 ELSE 1]) }
\* A ticker without bars is not in the fetched dict.
PricesOf(xlk, xlf, spy) ==
    LET tab == [XLK |-> xlk, XLF |-> xlf, SPY |-> spy]
    IN  [t \in { x \in DOMAIN tab : tab[x] # << >> } |-> tab[t]]
TargetDates == { MaxDay - 1, MaxDay }

Init ==
    /\ prices \in { PricesOf(xlk, xlf, spy) :
                        xlk \in XlkTables, xlf \in XlfTables, spy \in SpyTables }
    /\ target_date \in TargetDates
    /\ pc = "idle" /\ run_no = 0
    /\ day_idx = 0 /\ ticker_idx = 0 /\ sector_results = << >> /\ last_norm = None
    /\ result = None /\ all_rows = << >> /\ returned = None
    /\ history_file = NoFile /\ daily_files = {} /\ table_at_start = NoFile
    /\ tables = << >>
    /\ calculator = NewCalculator /\ zq = None /\ zn = None
    /\ ScoreIdle
    /\ IngestIdle

\* get_all_sector_prices with the benchmark's fetch failing: the other
\* tickers' tables.
WithoutBenchmark(p) == [t \in DOMAIN p \ { BENCHMARK_TICKER } |-> p[t]]

\* The early return of _process_all_days that saves its rows, as the end of
\* the loop does.
EarlyReturnSaving(calc, file) ==
    [calculator |-> calc, history_file |-> [state |-> "complete", rows |-> << >>],
     returned |-> EmptyResult]

\* _process_all_days without benchmark data: calculate_all({}) is returned
\* at once; what it leaves of the windows and of the history table.
EarlyReturn(calc, file) ==
    [calculator |-> calc, history_file |-> file, returned |-> EmptyResult]

\* run: a new pipeline; load_history(up_to_date = trade_date); the prices are
\* fetched, with or without the benchmark's; _process_all_days starts.
StartRun ==
    /\ pc \in { "idle", "done", "failed" }
    /\ run_no < MaxRuns
    /\ run_no' = run_no + 1
    /\ prices' \in { prices, WithoutBenchmark(prices) }
    /\ table_at_start' = history_file
    /\ calculator' = LoadHistory(NewCalculator, history_file, target_date)
    /\ pc' = "process"
    /\ day_idx' = 2 /\ ticker_idx' = 1 /\ sector_results' = << >> /\ last_norm' = None
    /\ result' = None /\ all_rows' = << >> /\ returned' = None
    /\ UNCHANGED << ingestVars, target_date, history_file, daily_files, tables, zq, zn,
                    scoreVars >>

\* _process_all_days without SPY data: calculate_all({}) is returned.
ProcessNoBenchmark ==
    /\ pc = "process"
    /\ ~HasBenchmark(prices)
    /\ LET out == EarlyReturn(calculator, history_file)
       IN  /\ calculator' = out.calculator
           /\ history_file' = out.history_file
           /\ returned' = Some(out.returned)
    /\ pc' = "save_result"
    /\ UNCHANGED << ingestVars, inputVars, run_no, day_idx, ticker_idx, sector_results,
                    last_norm, result, all_rows, daily_files, table_at_start, tables,
                    zq, zn, scoreVars >>

\* One iteration of calculate_all's loop on the current day: calculate_sector
\* for the next ticker.
CalculateSector ==
    /\ pc = "process"
    /\ HasBenchmark(prices)
    /\ day_idx <= Len(TradingDates(prices))
    /\ ticker_idx <= Len(SECTOR_UNIVERSE)
    /\ LET features == DayFeatures(prices, day_idx)[SECTOR_UNIVERSE[ticker_idx]]
           out == EngineCalculateSector(calculator, features)
       IN  /\ calculator' = out.calc
           /\ sector_results' = Append(sector_results, out.result)
           /\ last_norm' = Some([ticker |-> features.ticker, features |-> features,
                                 z_scores |-> out.norm.z_scores,
                                 excluded |-> out.norm.excluded,
                                 status |-> out.norm.status])
    /\ ticker_idx' = ticker_idx + 1
    /\ UNCHANGED << ingestVars, inputVars, pc, run_no, day_idx, result, all_rows, returned,
                    fileVars, zq, zn, scoreVars >>

\* calculate_all returns the day's HeliosResult; its rows are collected and
\* the loop moves to the next day.
FinishDay ==
    /\ pc = "process"
    /\ HasBenchmark(prices)
    /\ day_idx <= Len(TradingDates(prices))
    /\ ticker_idx > Len(SECTOR_UNIVERSE)
    /\ LET res == HeliosResultOf(sector_results,
                      Some(DayFeatures(prices, day_idx)[SECTOR_UNIVERSE[1]].trade_date))
       IN  /\ result' = Some(res)
           /\ all_rows' = all_rows \o HistoryRows(res)
    /\ day_idx' = day_idx + 1
    /\ ticker_idx' = 1
    /\ sector_results' = << >>
    /\ UNCHANGED << ingestVars, inputVars, pc, run_no, last_norm, returned, fileVars, windowVars,
                    scoreVars >>

\* After the loop, _save_history opens helios_history.parquet for writing
\* (to_parquet writes the target in place); with no rows nothing is saved
\* and the result is returned.
SaveHistoryOpen ==
    /\ pc = "process"
    /\ HasBenchmark(prices)
    /\ day_idx > Len(TradingDates(prices))
    /\ IF all_rows # << >>
       THEN /\ history_file' = [state |-> "partial", rows |-> << >>]
            /\ pc' = "writing"
            /\ UNCHANGED returned
       ELSE /\ returned' = IF result = None THEN Some(EmptyResult) ELSE result
            /\ pc' = "save_result"
            /\ UNCHANGED history_file
    /\ UNCHANGED << ingestVars, inputVars, run_no, day_idx, ticker_idx, sector_results, last_norm,
                    result, all_rows, daily_files, table_at_start, tables, windowVars,
                    scoreVars >>

\* The write completes: the table holds the de-duplicated rows, and
\* _process_all_days returns.
SaveHistoryWrite ==
    /\ pc = "writing"
    /\ history_file' = [state |-> "complete", rows |-> DropDuplicatesKeepLast(all_rows)]
    /\ returned' = IF result = None THEN Some(EmptyResult) ELSE result
    /\ pc' = "save_result"
    /\ UNCHANGED << ingestVars, inputVars, run_no, day_idx, ticker_idx, sector_results, last_norm,
                    result, all_rows, daily_files, table_at_start, tables, windowVars,
                    scoreVars >>

\* The write raises (an I/O error): the run fails.
SaveHistoryFail ==
    /\ pc = "writing"
    /\ pc' = "failed"
    /\ UNCHANGED << ingestVars, inputVars, run_no, loopVars, fileVars, windowVars, scoreVars >>

\* _save_result writes the daily snapshot and run returns.
SaveResult ==
    /\ pc = "save_result"
    /\ daily_files' = daily_files \cup { Val(returned).trade_date }
    /\ tables' = Append(tables, history_file)
    /\ pc' = "done"
    /\ UNCHANGED << ingestVars, inputVars, run_no, loopVars, history_file, table_at_start,
                    windowVars, scoreVars >>

\* _save_result raises (an I/O error): the run fails.
SaveResultFail ==
    /\ pc = "save_result"
    /\ pc' = "failed"
    /\ UNCHANGED << ingestVars, inputVars, run_no, loopVars, fileVars, windowVars, scoreVars >>

Next ==
    \/ StartRun
    \/ ProcessNoBenchmark
    \/ CalculateSector
    \/ FinishDay
    \/ SaveHistoryOpen
    \/ SaveHistoryWrite
    \/ SaveHistoryFail
    \/ SaveResult
    \/ SaveResultFail

Spec == Init /\ [][Next]_vars

(***************************************************************************)
(* _process_all_days alone: one run's replay loop up to its end, every     *)
(* step of which is taken once it can be (the loop is sequential code).    *)
(***************************************************************************)
NextLoop ==
    \/ StartRun
    \/ ProcessNoBenchmark
    \/ CalculateSector
    \/ FinishDay
    \/ SaveHistoryOpen

\* Where the loop stands: the statement, the day and the ticker.
position == << pc, day_idx, ticker_idx >>

\* The interpreter goes on to the loop's next statement: while
\* _process_all_days runs, its position moves.  Under [][NextLoop]_vars the
\* only steps that move it are the loop's own.
LoopStep ==
    /\ pc = "process"
    /\ pc' \in { "process", "writing", "save_result" }
    /\ day_idx' \in { day_idx, day_idx + 1 }
    /\ ticker_idx' \in { 1, ticker_idx + 1 }

SpecLoop == Init /\ [][NextLoop]_vars /\ WF_position(LoopStep)

(***************************************************************************)
(* Properties of the daily pipeline (Spec).                                *)
(***************************************************************************)
SeqToSet(q) == { q[n] : n \in 1 .. Len(q) }
TargetInSeries == HasBenchmark(prices) /\ target_date \in SeqToSet(TradingDates(prices))

\* C1: calculate_sector computes each feature's z-score from the windows as
\* they were before the call, and only then appends the day's non-missing
\* raw values: in every calculate_sector step the z-scores returned are
\* get_zscore of the raw values on the windows before the step, and the
\* windows after the step are those windows with the raw values added.
C1_ZscoreBeforeAdd ==
    [][Len(sector_results') = Len(sector_results) + 1 =>
        LET norm == Val(last_norm')
            t == norm.ticker
            raw == [AP |-> norm.features.net_flow, RS |-> norm.features.excess_return]
            res == sector_results'[Len(sector_results')]
        IN  \A f \in FeatureSet :
              /\ f \in DOMAIN norm.z_scores =>
                    /\ raw[f] # None
                    /\ Some(norm.z_scores[f]) = GetZscore(calculator, t, f, Val(raw[f]))
              /\ f \notin DOMAIN norm.z_scores =>
                    \/ raw[f] = None
                    \/ GetZscore(calculator, t, f, Val(raw[f])) = None
              /\ calculator'[t][f] =
                    IF raw[f] = None THEN calculator[t][f]
                    ELSE Add(calculator[t][f], Val(raw[f]), norm.features.trade_date)
              /\ res.allocation_score = calculate_cas(norm.z_scores)
    ]_vars

\* C1 witness: a sector was scored with a z-score that differs from the one
\* its window gives once the day's value is in it, and the value is in it.
C1_Witness ==
    /\ pc = "process"
    /\ last_norm # None
    /\ \E f \in DOMAIN Val(last_norm).z_scores :
        LET norm == Val(last_norm)
            raw == IF f = "AP" THEN norm.features.net_flow ELSE norm.features.excess_return
            w == calculator[norm.ticker][f]
        IN  /\ w.added # << >>
            /\ w.added[Len(w.added)] = << Val(raw), norm.features.trade_date >>
            /\ GetZscore(calculator, norm.ticker, f, Val(raw)) # Some(norm.z_scores[f])

\* C4: a second run over the same prices and target date on the same output
\* directory leaves the history table as the first run left it.
C4_RerunLeavesTableIdentical == Len(tables) >= 2 => tables[2] = tables[1]

\* C5: a run is all-or-nothing for the history table: the table is never
\* partially written, and after a failed run it is the table the run found.
C5_AllOrNothing ==
    /\ history_file.state # "partial"
    /\ pc = "failed" => history_file = table_at_start

\* C6: with the target date in the benchmark series, and not its earliest
\* date, _process_all_days returns the result of the target date.
C6_ReturnsTargetDay ==
    (returned # None /\ TargetInSeries /\ target_date # TradingDates(prices)[1])
        => Val(returned).trade_date = target_date

\* C7: with the target date in the series no date after it is scored, added
\* to a window or written to the history table.
C7_NothingAfterTarget ==
    (TargetInSeries /\ pc \notin { "idle", "off" }) =>
        /\ \A row \in SeqToSet(all_rows) : FromIso(row.date) <= target_date
        /\ result # None => Val(result).trade_date <= target_date
        /\ \A t \in Tickers, f \in FeatureSet :
             \A o \in SeqToSet(calculator[t][f].added) : o[2] <= target_date
        /\ \A row \in SeqToSet(history_file.rows) : FromIso(row.date) <= target_date

\* C8: a run without benchmark data (no table, or fewer than two rows)
\* returns a result with no sector results and overall status INSUFFICIENT.
C8_NoBenchmarkInsufficient ==
    (returned # None /\ ~HasBenchmark(prices)) =>
        /\ Val(returned).sectors = << >>
        /\ Val(returned).status = "INSUFFICIENT"

(***************************************************************************)
(* Properties of the rolling windows (SpecWindow).                         *)
(***************************************************************************)
LastK(q, k) == SubSeq(q, Len(q) - k + 1, Len(q))
Column(q, c) == [i \in 1 .. Len(q) |-> q[i][c]]
Windows == { calculator[t][f] : t \in Tickers, f \in FeatureSet }

\* C2: after n additions to a window of capacity W, count = min(n, W), the
\* retained values (and dates) are the min(n, W) most recently added, in
\* insertion order; the length never exceeds W and values and dates have
\* equal length.
C2_WindowKeepsMostRecent ==
    \A w \in Windows :
        LET n == Len(w.added)
            k == Min(n, ROLLING_WINDOW)
        IN  /\ Count(w) = k
            /\ w._values = Column(LastK(w.added, k), 1)
            /\ w._dates = Column(LastK(w.added, k), 2)
            /\ Len(w._values) <= ROLLING_WINDOW
            /\ Len(w._values) = Len(w._dates)

\* C2 witness: a window that received more than W additions and evicted.
C2_Witness ==
    \E w \in Windows :
        /\ Len(w.added) > ROLLING_WINDOW
        /\ Count(w) = ROLLING_WINDOW
        /\ w._values # Column(SubSeq(w.added, 1, ROLLING_WINDOW), 1)

\* C3: a window with count < N_min has mean and std None and get_zscore
\* answers None for it; is_ready holds exactly when count >= N_min; a
\* z-score is a number only for a tracked, ready window.
C3_NotReadyIsUndefined ==
    /\ \A w \in Windows :
        /\ Count(w) < MIN_OBSERVATIONS => Mean(w) = None /\ Std(w) = None
        /\ IsReady(w) <=> Count(w) >= MIN_OBSERVATIONS
    /\ zq # None =>
        LET q == Val(zq)
            tracked == q.ticker \in Tickers /\ q.feature_name \in FeatureSet
        IN  /\ tracked /\ Count(calculator[q.ticker][q.feature_name]) < MIN_OBSERVATIONS
                => q.z = None
            /\ q.z # None
                => tracked /\ IsReady(calculator[q.ticker][q.feature_name])

\* C3 witness: get_zscore answered None for a window that holds values, but
\* fewer than N_min.
C3_Witness ==
    /\ zq # None
    /\ Val(zq).ticker \in Tickers /\ Val(zq).feature_name \in FeatureSet
    /\ Count(calculator[Val(zq).ticker][Val(zq).feature_name]) > 0
    /\ Count(calculator[Val(zq).ticker][Val(zq).feature_name]) < MIN_OBSERVATIONS
    /\ Val(zq).z = None

(***************************************************************************)
(* Properties of the scoring functions (SpecScore).                        *)
(***************************************************************************)
\* C9: classify_state maps a score to exactly one of five states: > 1.0
\* OVERWEIGHT, (0.3, 1.0] ACCUMULATING, [-0.3, 0.3] NEUTRAL, [-1.0, -0.3)
\* DECREASING, < -1.0 UNDERWEIGHT, with no clamp at the extremes.
C9_FiveIntervals ==
    state_out # None =>
        LET st == Val(state_out)
            one == CasScale
            third == (3 * CasScale) \div 10
        IN  /\ (st = "OVERWEIGHT") <=> (cas_in > one)
            /\ (st = "ACCUMULATING") <=> (third < cas_in /\ cas_in <= one)
            /\ (st = "NEUTRAL") <=> (-third <= cas_in /\ cas_in <= third)
            /\ (st = "DECREASING") <=> (-one <= cas_in /\ cas_in < -third)
            /\ (st = "UNDERWEIGHT") <=> (cas_in < -one)
            /\ st \in { "OVERWEIGHT", "ACCUMULATING", "NEUTRAL", "DECREASING",
                        "UNDERWEIGHT" }

\* C9 witness: the score 1.0 exactly was classified ACCUMULATING.
C9_Witness == cas_in = CasScale /\ state_out = Some("ACCUMULATING")

\* C10: calculate_cas is the sum over the features present of weight x z
\* (0.60 AP, 0.40 RS), without renormalisation or clipping: the empty map
\* gives 0, AP=5 and RS=5 give 5, AP=2 alone gives 1.2, RS=2 alone 0.8.
C10_WeightedSumOfPresent ==
    cas_out # None =>
        /\ Val(cas_out) = (IF "AP" \in DOMAIN z_in THEN 60 * z_in["AP"] ELSE 0)
                        + (IF "RS" \in DOMAIN z_in THEN 40 * z_in["RS"] ELSE 0)
        /\ DOMAIN z_in = {} => Val(cas_out) = 0
        /\ (DOMAIN z_in = { "AP", "RS" } /\ z_in["AP"] = 500 /\ z_in["RS"] = 500)
            => Val(cas_out) = 5 * CasScale
        /\ (DOMAIN z_in = { "AP" } /\ z_in["AP"] = 200) => Val(cas_out) = 12000
        /\ (DOMAIN z_in = { "RS" } /\ z_in["RS"] = 200) => Val(cas_out) = 8000

\* C10 witness: AP = 2 alone scored 1.2.
C10_Witness == DOMAIN z_in = { "AP" } /\ z_in["AP"] = 200 /\ cas_out = Some(12000)

\* C11: a sector whose BaselineStatus is INSUFFICIENT gets state NEUTRAL
\* from calculate_sector, whatever its composite score.
C11_InsufficientIsNeutral ==
    (sector_state_out # None /\ status_in = "INSUFFICIENT")
        => Val(sector_state_out) = "NEUTRAL"

\* C11 witness: an INSUFFICIENT sector with a score above the OVERWEIGHT
\* threshold was classified NEUTRAL.
C11_Witness ==
    /\ status_in = "INSUFFICIENT" /\ cas_in > CasScale
    /\ sector_state_out = Some("NEUTRAL")

\* C12: what normalize_sector returns in a calculate_sector step: a feature
\* is excluded exactly when its raw value is missing or its z-score on the
\* windows before the step is undefined; scored and excluded features
\* partition the tracked features; the status is COMPLETE iff all scored,
\* INSUFFICIENT iff none scored, PARTIAL otherwise.
C12_NormalizeSectorStatus ==
    [][Len(sector_results') = Len(sector_results) + 1 =>
        LET norm == Val(last_norm')
            raw == [AP |-> norm.features.net_flow, RS |-> norm.features.excess_return]
            scored == DOMAIN norm.z_scores
            out == SeqToSet(norm.excluded)
        IN  /\ \A f \in FeatureSet :
                  f \in out <=>
                      \/ raw[f] = None
                      \/ GetZscore(calculator, norm.ticker, f, Val(raw[f])) = None
            /\ scored \cup out = FeatureSet
            /\ scored \cap out = {}
            /\ Len(norm.excluded) = Cardinality(out)
            /\ norm.status = "COMPLETE" <=> scored = FeatureSet
            /\ norm.status = "INSUFFICIENT" <=> scored = {}
            /\ norm.status = "PARTIAL" <=> (scored # {} /\ scored # FeatureSet)
    ]_vars

\* C12 witness: a PARTIAL sector: AP scored, and RS excluded although its
\* raw value is present (its z-score was undefined).
C12_Witness ==
    /\ last_norm # None
    /\ Val(last_norm).status = "PARTIAL"
    /\ Val(last_norm).excluded = << "RS" >>
    /\ Val(last_norm).features.excess_return # None
    /\ DOMAIN Val(last_norm).z_scores = { "AP" }

C14_MissingFlowIsPartial ==
    (sector_results # << >> /\ last_norm # None
        /\ Val(last_norm).features.net_flow = None
        /\ Val(last_norm).features.excess_return # None)
    =>  /\ Val(last_norm).status = "PARTIAL"
        /\ Val(last_norm).excluded = << "AP" >>
        /\ "RS" \in DOMAIN Val(last_norm).z_scores
        /\ sector_results[Len(sector_results)].allocation_score =
               WEIGHTS["RS"] * Val(last_norm).z_scores["RS"]

\* C14 amended: a sector with AP missing, RS present and a defined RS
\* z-score on the windows before the call (RS window ready, std not zero)
\* has status PARTIAL, excluded list <<AP>> and score 0.4 x z_RS.
C14_MissingFlowIsPartialWhenRsScores ==
    [][(/\ Len(sector_results') = Len(sector_results) + 1
        /\ Val(last_norm').features.net_flow = None
        /\ Val(last_norm').features.excess_return # None
        /\ GetZscore(calculator, Val(last_norm').ticker, "RS",
                     Val(Val(last_norm').features.excess_return)) # None)
       => LET norm == Val(last_norm')
              z == GetZscore(calculator, norm.ticker, "RS",
                             Val(norm.features.excess_return))
          IN  /\ norm.status = "PARTIAL"
              /\ norm.excluded = << "AP" >>
              /\ norm.z_scores = [f \in { "RS" } |-> Val(z)]
              /\ sector_results'[Len(sector_results')].allocation_score =
                     WEIGHTS["RS"] * Val(z)
    ]_vars

\* C14 witness: AP missing, RS scored with a non-zero z-score: PARTIAL,
\* AP alone excluded, score 0.4 x z_RS.
C14_Witness ==
    /\ sector_results # << >> /\ last_norm # None
    /\ Val(last_norm).features.net_flow = None
    /\ Val(last_norm).status = "PARTIAL"
    /\ Val(last_norm).excluded = << "AP" >>
    /\ "RS" \in DOMAIN Val(last_norm).z_scores
    /\ Val(last_norm).z_scores["RS"] # 0
    /\ sector_results[1].allocation_score = WEIGHTS["RS"] * Val(last_norm).z_scores["RS"]

\* The ticker has a price row on that date.
HasRow(t, d) == t \in DOMAIN prices /\ RowsOn(prices[t], d) # << >>

\* C15: every replayed day's result holds exactly one SectorResult for each
\* ticker of the universe, and a ticker without a price row that day has
\* both features excluded, status INSUFFICIENT and state NEUTRAL.
C15_WholeUniverseEveryDay ==
    /\ \A res \in SeqToSet(result) :
          /\ [n \in 1 .. Len(res.sectors) |-> res.sectors[n].ticker] = SECTOR_UNIVERSE
          /\ \A n \in 1 .. Len(res.sectors) :
                ~HasRow(res.sectors[n].ticker, res.trade_date) =>
                    /\ res.sectors[n].status = "INSUFFICIENT"
                    /\ res.sectors[n].state = "NEUTRAL"
    /\ \A d \in { FromIso(row.date) : row \in SeqToSet(all_rows) } :
          \A t \in Tickers :
            \E row \in SeqToSet(all_rows) : row.ticker = t /\ FromIso(row.date) = d
    /\ \A norm \in SeqToSet(last_norm) :
          (pc # "off" /\ ~HasRow(norm.ticker, norm.features.trade_date)) =>
              /\ norm.excluded = FEATURE_NAMES
              /\ norm.status = "INSUFFICIENT"

\* C15 witness: a day's result in which one ticker has no price row and is
\* INSUFFICIENT while the other has a row and is scored.
C15_Witness ==
    /\ result # None
    /\ \E n, k \in 1 .. Len(Val(result).sectors) :
          /\ ~HasRow(Val(result).sectors[n].ticker, Val(result).trade_date)
          /\ Val(result).sectors[n].status = "INSUFFICIENT"
          /\ HasRow(Val(result).sectors[k].ticker, Val(result).trade_date)
          /\ Val(result).sectors[k].status = "COMPLETE"

\* C16: add_observation(ticker, date, features) changes only the windows of
\* that ticker, and of these only the windows of the features whose value
\* is present, each by one add; an unknown ticker or feature changes
\* nothing and creates no window; the z-scores of every other ticker are
\* what they were.  Stated of the call on every reachable calculator.
C16_AddObservationFrame ==
    \A t \in Tickers \cup { UnknownTicker }, d \in WDates :
      \A features \in WFeatureMaps(d) :
        LET after == AddObservation(calculator, t, d, features)
        IN  /\ DOMAIN after = Tickers
            /\ \A u \in Tickers :
                  /\ DOMAIN after[u] = FeatureSet
                  /\ u # t => /\ after[u] = calculator[u]
                              /\ \A f \in FeatureSet :
                                    GetZscore(after, u, f, 3) =
                                        GetZscore(calculator, u, f, 3)
                  /\ u = t => \A f \in FeatureSet :
                        after[u][f] =
                           IF f \in DOMAIN features /\ features[f] # None
                           THEN Add(calculator[u][f], Val(features[f]), d)
                           ELSE calculator[u][f]

\* C16 witness: XLK's AP window holds two observations, one of them of a
\* day whose RS value was missing, so that its RS window holds one, and no
\* window of XLF holds anything.
C16_Witness ==
    /\ Len(calculator["XLK"]["AP"].added) = 2
    /\ Len(calculator["XLK"]["RS"].added) = 1
    /\ \A f \in FeatureSet : calculator["XLF"][f].added = << >>
    /\ zq # None /\ Val(zq).ticker = "XLF" /\ Val(zq).z = None

\* The last row of the accumulator for a (date, ticker) pair.
LastRowFor(d, t) ==
    LET at == { n \in 1 .. Len(all_rows) :
                    all_rows[n].date = d /\ all_rows[n].ticker = t }
    IN  all_rows[CHOOSE n \in at : \A k \in at : k <= n]

\* C17: the history table a run has written holds one row for every
\* (date, ticker) pair of the run's accumulated rows, that row is the last
\* one accumulated for the pair, and it holds nothing else.
C17_HistoryIsDedupedAccumulator ==
    (pc \in { "save_result", "done" } /\ all_rows # << >>) =>
        /\ history_file.state = "complete"
        /\ \A n, k \in 1 .. Len(history_file.rows) :
              (/\ history_file.rows[n].date = history_file.rows[k].date
               /\ history_file.rows[n].ticker = history_file.rows[k].ticker) => n = k
        /\ SeqToSet(history_file.rows) =
              { LastRowFor(row.date, row.ticker) : row \in SeqToSet(all_rows) }

\* C17 witness: the accumulator holds two different rows for one (date,
\* ticker) pair and the written table holds the later of them only.
C17_Witness ==
    /\ pc = "done"
    /\ \E n, k \in 1 .. Len(all_rows) :
          /\ n < k
          /\ all_rows[n].date = all_rows[k].date
          /\ all_rows[n].ticker = all_rows[k].ticker
          /\ all_rows[n] # all_rows[k]
          /\ all_rows[k] \in SeqToSet(history_file.rows)
          /\ all_rows[n] \notin SeqToSet(history_file.rows)

\* C18: on a ready window whose standard deviation is zero, get_zscore and
\* zscore_normalize give the same outcome for the same value.
C18_ZeroStdAgreement ==
    (zq # None /\ zn # None /\ Val(zn).std = Some(0)) =>
        Val(zq).z = Some(Val(zn).z)

\* The raw values the prices give a ticker's feature: <<value, date>> for
\* every replayed day on which the feature is not missing.
ObservedRaw(t, f) ==
    IF ~HasBenchmark(prices) THEN {}
    ELSE { << Val(IF f = "AP" THEN DayFeatures(prices, n)[t].net_flow
                  ELSE DayFeatures(prices, n)[t].excess_return),
              TradingDates(prices)[n] >> :
             n \in { k \in 2 .. Len(TradingDates(prices)) :
                        (IF f = "AP" THEN DayFeatures(prices, k)[t].net_flow
                         ELSE DayFeatures(prices, k)[t].excess_return) # None } }

\* C19: every value in a baseline window is a non-missing raw value that
\* was observed for that ticker and feature on the recorded date; a missing
\* observation never enters a window, in the replay or through load_history.
C19_NoMissingValueInWindow ==
    pc # "off" =>
        \A t \in Tickers, f \in FeatureSet :
            \A n \in 1 .. Len(calculator[t][f]._values) :
                << calculator[t][f]._values[n], calculator[t][f]._dates[n] >>
                    \in ObservedRaw(t, f)

\* C20: after a run (history load followed by the replay loop) the dates of
\* the observations retained in each window are strictly increasing in
\* insertion order.
C20_WindowDatesIncrease ==
    pc = "done" =>
        \A t \in Tickers, f \in FeatureSet :
            \A n \in 1 .. Len(calculator[t][f]._dates) - 1 :
                calculator[t][f]._dates[n] < calculator[t][f]._dates[n + 1]

\* The latest date of the benchmark table.
LastBenchmarkDate ==
    CHOOSE d \in SeqToSet(TradingDates(prices)) :
        \A e \in SeqToSet(TradingDates(prices)) : e <= d

\* C21: with the target date not in the benchmark series,
\* _process_all_days returns the result of the last replayed day, or the
\* default result without sectors if no day was replayed.
C21_TargetAbsentReturnsLast ==
    (returned # None /\ ~TargetInSeries) =>
        IF HasBenchmark(prices)
        THEN /\ returned = result
             /\ Val(returned).trade_date = LastBenchmarkDate
             /\ Len(Val(returned).sectors) = Len(SECTOR_UNIVERSE)
             /\ \A row \in SeqToSet(all_rows) :
                   FromIso(row.date) <= Val(returned).trade_date
        ELSE /\ Val(returned).sectors = << >>
             /\ result = None

\* C21 witness: a benchmark series without the target date, and the
\* result of its last date returned.
C21_Witness ==
    /\ returned # None
    /\ HasBenchmark(prices)
    /\ target_date \notin SeqToSet(TradingDates(prices))
    /\ Val(returned).trade_date = LastBenchmarkDate
    /\ Val(returned).trade_date < target_date

\* C22: a SectorResult with status COMPLETE or PARTIAL has as score the
\* weighted sum of its scored z-scores and as state from_cas of that score;
\* z-scores 1.5 for AP and 1.2 for RS give score 1.38 and state OVERWEIGHT.
C22_ScoreAndStateOfScored ==
    \A r \in SeqToSet(sector_results) :
        (pc = "off" /\ r.status \in { "COMPLETE", "PARTIAL" }) =>
            /\ r.allocation_score =
                  (IF "AP" \in DOMAIN z_in THEN WEIGHTS["AP"] * z_in["AP"] ELSE 0)
                  + (IF "RS" \in DOMAIN z_in THEN WEIGHTS["RS"] * z_in["RS"] ELSE 0)
            /\ r.state = from_cas(r.allocation_score)
            /\ (DOMAIN z_in = FeatureSet /\ z_in["AP"] = 150 /\ z_in["RS"] = 120) =>
                  /\ r.allocation_score = 13800
                  /\ r.state = "OVERWEIGHT"

\* C22 witness: z-scores 1.5 and 1.2 scored 1.38, OVERWEIGHT.
C22_Witness ==
    /\ pc = "off"
    /\ DOMAIN z_in = FeatureSet /\ z_in["AP"] = 150 /\ z_in["RS"] = 120
    /\ sector_results # << >>
    /\ sector_results[1].status = "COMPLETE"
    /\ sector_results[1].allocation_score = 13800
    /\ sector_results[1].state = "OVERWEIGHT"

\* C23: at the moment a day is scored for a ticker, the ticker's windows
\* hold no observation dated that day or later.
C23_NoLookAhead ==
    (/\ pc = "process" /\ HasBenchmark(prices)
     /\ day_idx <= Len(TradingDates(prices))
     /\ ticker_idx <= Len(SECTOR_UNIVERSE)) =>
        \A f \in FeatureSet :
            \A d \in SeqToSet(calculator[SECTOR_UNIVERSE[ticker_idx]][f]._dates) :
                d < TradingDates(prices)[day_idx]

\* The dates of the benchmark table in ascending order, each once.
AscendingBenchmarkDates ==
    IF BENCHMARK_TICKER \notin DOMAIN prices THEN << >>
    ELSE SelectSeq([d \in 1 .. MaxDay |-> d],
                   LAMBDA d : \E n \in 1 .. Len(prices[BENCHMARK_TICKER]) :
                                 prices[BENCHMARK_TICKER][n].date = d)

DistinctBenchmarkDates ==
    BENCHMARK_TICKER \in DOMAIN prices =>
        Len(AscendingBenchmarkDates) = Len(prices[BENCHMARK_TICKER])

\* The dates scored for a ticker, in the order they were scored.
ScoredDates(t) ==
    LET mine == SelectSeq(all_rows, LAMBDA row : row.ticker = t)
    IN  [n \in 1 .. Len(mine) |-> FromIso(mine[n].date)]

LoopEnded == pc \in { "writing", "save_result" }

\* C24: the replay loop always comes to its end, and when the benchmark
\* dates are distinct it has then scored, for every ticker, each date but
\* the earliest exactly once, in ascending order, whatever the row order
\* and whatever tables or rows are missing.
C24_LoopScoresEveryDateAndEnds ==
    (pc = "process") ~>
        (/\ LoopEnded
         /\ (HasBenchmark(prices) /\ DistinctBenchmarkDates) =>
               \A t \in Tickers : ScoredDates(t) = Tail(AscendingBenchmarkDates)
         /\ ~HasBenchmark(prices) => all_rows = << >>)

\* C24 witness: the loop has ended on a benchmark table in descending row
\* order and a ticker without any row, every date but the first scored.
C24_Witness ==
    /\ LoopEnded
    /\ HasBenchmark(prices) /\ DistinctBenchmarkDates
    /\ TradingDatesUnsorted(prices) # AscendingBenchmarkDates
    /\ "XLF" \notin DOMAIN prices
    /\ \A t \in Tickers : ScoredDates(t) = Tail(AscendingBenchmarkDates)
    /\ Len(AscendingBenchmarkDates) = MaxDay

(***************************************************************************)
(* ingest/rate_limiter.py: one TokenBucketLimiter used by the coroutines   *)
(* of one asyncio event loop.  Time is counted in ticks, each of which     *)
(* refills 1 / TicksPerToken of a token (a tick is                         *)
(* 1 / (TicksPerToken * rate_per_second) seconds), and the bucket is       *)
(* counted in the same unit.  `elapsed` is time.monotonic() - _last_update *)
(* and stops growing at the time that fills an empty bucket, beyond which  *)
(* _refill gives burst_size whatever it is.  Between two awaits a          *)
(* coroutine runs alone, so one pass from the lock (or from the end of a   *)
(* sleep) to the next sleep or to the return is one step.                  *)
(***************************************************************************)
burst_size == 2
TicksPerToken == 2
Units(tok) == tok * TicksPerToken
Callers == { "t1", "t2" }
\* The token counts asked for: none, up to the bucket's capacity, one more.
TokenRequests == 0 .. burst_size + 1

\* _refill: the tokens after it; it also sets _last_update = now.
_refill(tok, el) == Min(Units(burst_size), tok + el)

IdleTask ==
    [pc |-> "idle", op |-> "none", tokens |-> 0, wait_time |-> 0, ret |-> None,
     taken |-> 0]

\* The body of acquire (one turn of its loop) and of try_acquire, run with
\* the lock held: where the coroutine stands after it.
LockedPass(tok0, el, op, req) ==
    LET tok == _refill(tok0, el)
    IN  IF tok >= Units(req)
        THEN [_tokens |-> tok - Units(req), pc |-> "idle", wait_time |-> 0,
              ret |-> Some(IF op = "acquire" THEN "None" ELSE "True"),
              taken |-> Units(req)]
        ELSE IF op = "acquire"
        THEN [_tokens |-> tok, pc |-> "sleeping", wait_time |-> Units(req) - tok,
              ret |-> None, taken |-> 0]
        ELSE [_tokens |-> tok, pc |-> "idle", wait_time |-> 0,
              ret |-> Some("False"), taken |-> 0]

\* The effect of a pass of caller c: the bucket, the caller, and the lock,
\* which stays held over a sleep and is released by a return.
RunLocked(c, op, req, waiters) ==
    LET out == LockedPass(_tokens, elapsed, op, req)
    IN  /\ _tokens' = out._tokens
        /\ elapsed' = 0
        /\ tasks' = [tasks EXCEPT ![c] =
                        [pc |-> out.pc, op |-> op, tokens |-> req,
                         wait_time |-> out.wait_time, ret |-> out.ret,
                         taken |-> out.taken]]
        /\ _lock' = [_locked |-> out.pc = "sleeping", _waiters |-> waiters]

InitLimiter ==
    /\ _tokens = Units(burst_size)
    /\ elapsed = 0
    /\ _lock = [_locked |-> FALSE, _waiters |-> << >>]
    /\ tasks = [c \in Callers |-> IdleTask]
    /\ files = << >> /\ writers = << >> /\ loaded = None
    /\ calculator = NewCalculator /\ zq = None /\ zn = None
    /\ ScoreIdle
    /\ PipeIdle

\* A coroutine calls acquire(tokens) or try_acquire(tokens): `async with
\* self._lock` takes a free lock that nobody waits for without yielding, and
\* otherwise queues the caller.
CallLimiter(c) ==
    /\ tasks[c].pc = "idle"
    /\ \E op \in { "acquire", "try_acquire" }, req \in TokenRequests :
          IF ~_lock._locked /\ _lock._waiters = << >>
          THEN RunLocked(c, op, req, << >>)
          ELSE /\ tasks' = [tasks EXCEPT ![c] =
                               [pc |-> "lock_wait", op |-> op, tokens |-> req,
                                wait_time |-> 0, ret |-> None, taken |-> 0]]
               /\ _lock' = [_lock EXCEPT !._waiters = Append(@, c)]
               /\ UNCHANGED << _tokens, elapsed >>
    /\ UNCHANGED << cacheVars, inputVars, pc, run_no, loopVars, fileVars, windowVars,
                    scoreVars >>

\* The lock was released: its first waiter is resumed and runs its body.
ResumeWaiter(c) ==
    /\ tasks[c].pc = "lock_wait"
    /\ ~_lock._locked
    /\ _lock._waiters # << >> /\ Head(_lock._waiters) = c
    /\ RunLocked(c, tasks[c].op, tasks[c].tokens, Tail(_lock._waiters))
    /\ UNCHANGED << cacheVars, inputVars, pc, run_no, loopVars, fileVars, windowVars,
                    scoreVars >>

\* asyncio.sleep(wait_time) is over: acquire's loop takes its next turn.
WakeSleeper(c) ==
    /\ tasks[c].pc = "sleeping"
    /\ tasks[c].wait_time = 0
    /\ RunLocked(c, tasks[c].op, tasks[c].tokens, _lock._waiters)
    /\ UNCHANGED << cacheVars, inputVars, pc, run_no, loopVars, fileVars, windowVars,
                    scoreVars >>

\* The available_tokens property: _refill, without the lock.
AvailableTokens ==
    /\ _tokens' = _refill(_tokens, elapsed)
    /\ elapsed' = 0
    /\ UNCHANGED << _lock, tasks, cacheVars, inputVars, pc, run_no, loopVars, fileVars,
                    windowVars, scoreVars >>

\* Time advances by one tick.
Tick ==
    /\ elapsed' = Min(elapsed + 1, Units(burst_size))
    /\ tasks' = [c \in Callers |->
                    IF tasks[c].pc = "sleeping" /\ tasks[c].wait_time > 0
                    THEN [tasks[c] EXCEPT !.wait_time = @ - 1]
                    ELSE tasks[c]]
    /\ UNCHANGED << _tokens, _lock, cacheVars, inputVars, pc, run_no, loopVars,
                    fileVars, windowVars, scoreVars >>

NextLimiter ==
    \/ \E c \in Callers : CallLimiter(c)
    \/ \E c \in Callers : ResumeWaiter(c)
    \/ \E c \in Callers : WakeSleeper(c)
    \/ AvailableTokens
    \/ Tick

\* Time advances, and the event loop runs every coroutine that is ready:
\* the waiter the lock was handed to, the sleeper whose time is up.
SpecLimiter ==
    /\ InitLimiter
    /\ [][NextLimiter]_vars
    /\ WF_vars(Tick)
    /\ \A c \in Callers : WF_vars(ResumeWaiter(c)) /\ WF_vars(WakeSleeper(c))

(***************************************************************************)
(* Properties of the rate limiter (SpecLimiter).                           *)
(***************************************************************************)
\* C25: every acquire(tokens) eventually returns once time advances, for
\* every token count asked for, also with several callers at once: a caller
\* that is inside acquire (queued for the lock or sleeping) is eventually
\* out of it.
C25_AcquireEventuallyReturns ==
    \A c \in Callers :
        (tasks[c].op = "acquire" /\ tasks[c].pc # "idle") ~> (tasks[c].pc = "idle")

\* C26: the bucket stays within 0 .. burst_size, try_acquire never waits,
\* and a try_acquire that returned False took no token.
C26_BucketBoundedTryNeverWaits ==
    /\ 0 <= _tokens /\ _tokens <= Units(burst_size)
    /\ \A c \in Callers :
          /\ tasks[c].op = "try_acquire" => tasks[c].pc = "idle"
          /\ tasks[c].ret = Some("False") => tasks[c].taken = 0

(***************************************************************************)
(* ingest/cache.py: CacheManager.save_json and load_json on one cache      *)
(* path, called by two writers (two processes sharing the cache            *)
(* directory) and a reader.  `files` maps the paths that exist to their    *)
(* content, the sequence of the chunks written so far.                     *)
(***************************************************************************)
Writers == { "w1", "w2" }
CacheData == { "v1", "v2" }
TargetPath == << "target" >>

\* json.dump(data, f, indent=2): the chunks it writes, in order.
JsonDump(data) == << "{", data, "}" >>
\* json.load: the data of a complete document, None for what raises
\* JSONDecodeError.
JsonLoad(content) ==
    IF \E d \in CacheData : content = JsonDump(d)
    THEN Some(content[Len(content) - 1]) ELSE None

\* A write straight into the target path.
TempPathInPlace(w) == TargetPath

\* tempfile.mkstemp(suffix=".tmp", prefix=".cache_", dir=path.parent): a
\* fresh name in the target's directory.
TempPath(w) == << ".cache_", w, ".tmp" >>

\* os.unlink, and os.rename onto an existing or a new path.
Unlink(fs, path) == [q \in DOMAIN fs \ { path } |-> fs[q]]
Rename(fs, src, dst) ==
    [q \in (DOMAIN fs \ { src }) \cup { dst } |-> IF q = dst THEN fs[src] ELSE fs[q]]
CreateFile(fs, path) == [q \in DOMAIN fs \cup { path } |-> IF q = path THEN << >> ELSE fs[q]]

IdleWriter == [pc |-> "idle", data |-> "v1", written |-> 0, outcome |-> None]

InitCache ==
    /\ files = << >>
    /\ writers = [w \in Writers |-> IdleWriter]
    /\ loaded = None
    /\ _tokens = 0 /\ elapsed = 0 /\ _lock = << >> /\ tasks = << >>
    /\ calculator = NewCalculator /\ zq = None /\ zn = None
    /\ ScoreIdle
    /\ PipeIdle

CacheFrame ==
    UNCHANGED << limiterVars, inputVars, pc, run_no, loopVars, fileVars, windowVars,
                 scoreVars >>

\* save_json(data, ...) is called: _get_path, then _atomic_write starts.
CallSaveJson(w) ==
    /\ writers[w].pc = "idle"
    /\ \E data \in CacheData :
          writers' = [writers EXCEPT ![w] =
                         [pc |-> "mkdir", data |-> data, written |-> 0, outcome |-> None]]
    /\ UNCHANGED << files, loaded >>
    /\ CacheFrame

\* path.parent.mkdir(parents=True, exist_ok=True)
Mkdir(w) ==
    /\ writers[w].pc = "mkdir"
    /\ writers' = [writers EXCEPT ![w].pc = "mkstemp"]
    /\ UNCHANGED << files, loaded >>
    /\ CacheFrame

\* mkstemp creates the empty temp file.
Mkstemp(w) ==
    /\ writers[w].pc = "mkstemp"
    /\ files' = CreateFile(files, TempPath(w))
    /\ writers' = [writers EXCEPT ![w].pc = "write"]
    /\ UNCHANGED loaded
    /\ CacheFrame

\* write_func(f): json.dump writes its next chunk to the temp file.
WriteChunk(w) ==
    /\ writers[w].pc = "write"
    /\ writers[w].written < Len(JsonDump(writers[w].data))
    /\ files' = [files EXCEPT ![TempPath(w)] =
                    Append(@, JsonDump(writers[w].data)[writers[w].written + 1])]
    /\ writers' = [writers EXCEPT ![w].written = @ + 1]
    /\ UNCHANGED loaded
    /\ CacheFrame

\* The with block ends: the temp file is closed.
CloseTemp(w) ==
    /\ writers[w].pc = "write"
    /\ writers[w].written = Len(JsonDump(writers[w].data))
    /\ writers' = [writers EXCEPT ![w].pc = "rename"]
    /\ UNCHANGED << files, loaded >>
    /\ CacheFrame

\* os.rename(temp_path, path) replaces the target in one step; save_json
\* returns the path.
RenameTemp(w) ==
    /\ writers[w].pc = "rename"
    /\ files' = Rename(files, TempPath(w), TargetPath)
    /\ writers' = [writers EXCEPT ![w].pc = "idle", ![w].outcome = Some("returned")]
    /\ UNCHANGED loaded
    /\ CacheFrame

\* Any of these steps raises (mkdir, mkstemp, a write, the close, the
\* rename): inside the try the handler unlinks the temp file if it exists
\* and re-raises, and save_json raises CacheError from it.
SaveFails(w) ==
    /\ writers[w].pc \in { "mkdir", "mkstemp", "write", "rename" }
    /\ files' = IF writers[w].pc \in { "write", "rename" } /\ TempPath(w) \in DOMAIN files
                THEN Unlink(files, TempPath(w)) ELSE files
    /\ writers' = [writers EXCEPT ![w].pc = "idle", ![w].outcome = Some("CacheError")]
    /\ UNCHANGED loaded
    /\ CacheFrame

\* load_json on a target within its TTL: what open(path) reads.
LoadJson ==
    /\ loaded' = IF TargetPath \in DOMAIN files THEN Some(files[TargetPath]) ELSE None
    /\ UNCHANGED << files, writers >>
    /\ CacheFrame

NextCache ==
    \/ \E w \in Writers : CallSaveJson(w)
    \/ \E w \in Writers : Mkdir(w)
    \/ \E w \in Writers : Mkstemp(w)
    \/ \E w \in Writers : WriteChunk(w)
    \/ \E w \in Writers : CloseTemp(w)
    \/ \E w \in Writers : RenameTemp(w)
    \/ \E w \in Writers : SaveFails(w)
    \/ LoadJson

SpecCache == InitCache /\ [][NextCache]_vars

(***************************************************************************)
(* Properties of the cache (SpecCache).                                    *)
(***************************************************************************)
TargetContent(fs) == IF TargetPath \in DOMAIN fs THEN Some(fs[TargetPath]) ELSE None
CompleteOrAbsent(content) == content = None \/ JsonLoad(Val(content)) # None

\* C27: a step of save_json either is its rename, after which the target
\* holds the complete new content and the call returns, or leaves the
\* target as it was; a call that fails has raised CacheError with its temp
\* file removed; and neither the target nor what a reader read from it is
\* ever a partly written document.
C27_SaveJsonAtomic ==
    [][/\ CompleteOrAbsent(TargetContent(files'))
       /\ CompleteOrAbsent(loaded')
       /\ \A w \in Writers :
             writers'[w] # writers[w] =>
                /\ writers'[w].outcome = Some("returned") =>
                      /\ writers[w].pc = "rename"
                      /\ TargetContent(files') = Some(JsonDump(writers[w].data))
                      /\ TempPath(w) \notin DOMAIN files'
                /\ writers'[w].outcome # Some("returned") =>
                      TargetContent(files') = TargetContent(files)
                /\ writers'[w].outcome = Some("CacheError") =>
                      TempPath(w) \notin DOMAIN files'
    ]_vars

\* C27 witness: a save failed after it had written part of its document,
\* the target still holds the other, earlier content and a reader read it,
\* and the failed call's temp file is gone.
C27_Witness ==
    \E w \in Writers :
        /\ writers[w].outcome = Some("CacheError")
        /\ writers[w].written > 0
        /\ writers[w].written < Len(JsonDump(writers[w].data))
        /\ TargetContent(files) # None
        /\ TargetContent(files) # Some(JsonDump(writers[w].data))
        /\ loaded = TargetContent(files)
        /\ TempPath(w) \notin DOMAIN files

(***************************************************************************)
(* The warm-up of the baselines in a backfill from empty windows (Spec).   *)
(***************************************************************************)
\* A sector is scored in the first run, whose windows start empty.
ScoredFromEmpty == run_no = 1 /\ Len(sector_results') = Len(sector_results) + 1

\* The window's N_min-th observation was added on the replayed day before
\* the current one.
FirstDayAfterNmin(stats) ==
    /\ Len(stats.added) = MIN_OBSERVATIONS
    /\ stats.added[Len(stats.added)][2] = TradingDates(prices)[day_idx - 1]

\* C28 as stated: from empty windows a feature has no z-score while fewer
\* than N_min observations of it were added and has one on the first day
\* after the N_min-th was added; on the first N_min replayed days every
\* entity is INSUFFICIENT and NEUTRAL and its present raw values are added.
C28_FirstZscoreAfterNmin ==
    [][ScoredFromEmpty =>
        LET norm == Val(last_norm')
            t == norm.ticker
            raw == [AP |-> norm.features.net_flow, RS |-> norm.features.excess_return]
            res == sector_results'[Len(sector_results')]
        IN  /\ \A f \in FeatureSet :
                  /\ Len(calculator[t][f].added) < MIN_OBSERVATIONS =>
                        f \notin DOMAIN norm.z_scores
                  /\ FirstDayAfterNmin(calculator[t][f]) => f \in DOMAIN norm.z_scores
            /\ day_idx - 1 <= MIN_OBSERVATIONS =>
                  /\ res.status = "INSUFFICIENT" /\ res.state = "NEUTRAL"
                  /\ \A f \in FeatureSet :
                        raw[f] # None =>
                            calculator'[t][f] =
                                Add(calculator[t][f], Val(raw[f]), norm.features.trade_date)
    ]_vars

\* C28, amended: the same, the z-score on the first day after the N_min-th
\* observation being given when the feature's raw value is present that day
\* and the window's standard deviation is not zero.
C28_FirstZscoreAfterNminIfDefined ==
    [][ScoredFromEmpty =>
        LET norm == Val(last_norm')
            t == norm.ticker
            raw == [AP |-> norm.features.net_flow, RS |-> norm.features.excess_return]
            res == sector_results'[Len(sector_results')]
        IN  /\ \A f \in FeatureSet :
                  /\ Len(calculator[t][f].added) < MIN_OBSERVATIONS =>
                        f \notin DOMAIN norm.z_scores
                  /\ FirstDayAfterNmin(calculator[t][f]) =>
                        (f \in DOMAIN norm.z_scores <=>
                            raw[f] # None /\ Std(calculator[t][f]) # Some(0))
            /\ day_idx - 1 <= MIN_OBSERVATIONS =>
                  /\ res.status = "INSUFFICIENT" /\ res.state = "NEUTRAL"
                  /\ \A f \in FeatureSet :
                        raw[f] # None =>
                            calculator'[t][f] =
                                Add(calculator[t][f], Val(raw[f]), norm.features.trade_date)
    ]_vars

\* C28 witness: in the first run a sector was just scored on the day after
\* the N_min-th observation of its AP window was added and got an AP
\* z-score, its rows of the first N_min replayed days being INSUFFICIENT.
C28_Witness ==
    /\ run_no = 1 /\ pc = "process" /\ sector_results # << >>
    /\ day_idx - 1 = MIN_OBSERVATIONS + 1
    /\ LET norm == Val(last_norm)
       IN  /\ "AP" \in DOMAIN norm.z_scores
           /\ Len(calculator[norm.ticker]["AP"].added) = MIN_OBSERVATIONS + 1
           /\ norm.status = "PARTIAL"
    /\ Len(all_rows) = MIN_OBSERVATIONS * Len(SECTOR_UNIVERSE)
    /\ \A n \in 1 .. Len(all_rows) : all_rows[n].status = "INSUFFICIENT"

(***************************************************************************)
(* _process_all_days without benchmark data (Spec).                        *)
(***************************************************************************)
NoBenchmarkData ==
    BENCHMARK_TICKER \notin DOMAIN prices \/ Len(prices[BENCHMARK_TICKER]) < 2

\* C29: when the benchmark table is absent or has fewer than two rows, a
\* run that is past _process_all_days has scored no day, its windows are
\* those load_history gave it and the history table is the one it found.
C29_NoBenchmarkChangesNothing ==
    (NoBenchmarkData /\ pc \in { "save_result", "done", "failed" }) =>
        /\ all_rows = << >> /\ result = None /\ sector_results = << >>
        /\ Val(returned).sectors = << >>
        /\ calculator = LoadHistory(NewCalculator, table_at_start, target_date)
        /\ history_file = table_at_start

\* C29 witness: a run without benchmark data has returned, after an
\* earlier run persisted a history that this run loaded into its windows.
C29_Witness ==
    /\ NoBenchmarkData /\ pc = "save_result"
    /\ history_file.state = "complete" /\ history_file.rows # << >>
    /\ calculator # NewCalculator
    /\ history_file = table_at_start

(***************************************************************************)
(* INSUFFICIENT entities and the overweight and underweight lists (Spec).  *)
(***************************************************************************)
\* The HeliosResults at hand: the last day's and the returned one.
ResultsAtHand == SeqToSet(result) \cup SeqToSet(returned)

\* C30: every INSUFFICIENT SectorResult has allocation_score 0 and state
\* NEUTRAL; in every HeliosResult overweight_sectors and underweight_sectors
\* hold exactly the sectors whose state is OVERWEIGHT, respectively
\* UNDERWEIGHT, in the result's order, and so no INSUFFICIENT one.
C30_InsufficientNeverListed ==
    /\ \A n \in 1 .. Len(sector_results) :
          sector_results[n].status = "INSUFFICIENT" =>
              sector_results[n].allocation_score = 0 /\ sector_results[n].state = "NEUTRAL"
    /\ \A res \in ResultsAtHand :
          /\ \A s \in SeqToSet(res.sectors) :
                /\ s.status = "INSUFFICIENT" => s.allocation_score = 0 /\ s.state = "NEUTRAL"
                /\ s \in SeqToSet(overweight_sectors(res)) <=> s.state = "OVERWEIGHT"
                /\ s \in SeqToSet(underweight_sectors(res)) <=> s.state = "UNDERWEIGHT"
          /\ \A s \in SeqToSet(overweight_sectors(res)) \cup SeqToSet(underweight_sectors(res)) :
                s \in SeqToSet(res.sectors) /\ s.status # "INSUFFICIENT"
          /\ Len(overweight_sectors(res)) + Len(underweight_sectors(res)) <= Len(res.sectors)

\* C30 witness: a day's result with an INSUFFICIENT sector, listed in
\* neither list, next to an OVERWEIGHT one, which alone is listed.
C30_Witness ==
    \E res \in SeqToSet(result) :
        /\ \E s \in SeqToSet(res.sectors) : s.status = "INSUFFICIENT"
        /\ Len(overweight_sectors(res)) = 1
        /\ overweight_sectors(res)[1].status # "INSUFFICIENT"
        /\ underweight_sectors(res) = << >>
        /\ Len(res.sectors) = Len(SECTOR_UNIVERSE)

====
